---- MODULE Spec2Model ----
(***************************************************************************)
(* The two gem5 configuration scripts of the repository, dvfs_config.py    *)
(* and remove_l2cache_config.py, as a state machine.  Each script is       *)
(* straight-line code: it is modelled as a listing of instructions and a   *)
(* program counter.  The simulation engine (m5) is an external             *)
(* collaborator; its advance primitive is modelled by the set of outcomes  *)
(* it may yield, and the call and the return of m5.simulate are two steps. *)
(***************************************************************************)
EXTENDS Integers, Sequences, FiniteSets, TLC

VARIABLES
    script,      \* which script is being run
    pc,          \* index of the next instruction of the script
    domains,     \* clock / voltage of system.clk_domain and system.cpu_clk_domain
    cur_tick,    \* m5.curTick()
    stats,       \* accumulators: ticks counted since the last reset, per advance call
    dumps,       \* the snapshots written by m5.stats.dump(), in order
    advancing,   \* TRUE while control is inside m5.simulate
    limit,       \* tick bound of the advance in progress (-1: none)
    exit_event,  \* the script's variable exit_event
    output,      \* what the script has printed (phase ticks and the final report;
                 \* `event` is history: the advance whose exit event was read)
    trace,       \* history: the engine calls and domain writes made, in order
    start_tick,  \* history: curTick observed when advance k was called
    end_tick,    \* history: curTick observed when advance k returned
    returned,    \* history: the exit event advance k yielded
    cache_class, \* class of each cache object
    cpu_side,    \* what each cache's cpu_side port is bound to
    mem_side,    \* what each cache's mem_side port is bound to
    cpu_ports,   \* what the CPU's icache_port / dcache_port are bound to
    raised,      \* exception raised by the last call of a cache method
    last_call    \* history: the last cache method called, and on which cache

vars == <<script, pc, domains, cur_tick, stats, dumps, advancing, limit,
          exit_event, output, trace, start_tick, end_tick, returned,
          cache_class, cpu_side, mem_side, cpu_ports, raised, last_call>>

driverVars == <<script, pc, domains, cur_tick, stats, dumps, advancing, limit,
                exit_event, output, trace, start_tick, end_tick, returned>>

cacheVars == <<cache_class, cpu_side, mem_side, cpu_ports, raised, last_call>>

----------------------------------------------------------------------------
(* Bounds of the model *)

\* The engine's advance is sampled at TickSteps + 1 evenly spaced elapsed times.
TickSteps == 2

\* Longest run of the unbounded advance that is explored.
MaxFinalTicks == 50000000

----------------------------------------------------------------------------
(* Program constants *)

PhaseTicks == 20000000

NoEvent == [id |-> 0, cause |-> "none"]

LimitCause == "simulate() limit reached"

\* Causes the advance primitive may yield.
Causes == {LimitCause, "exiting with last active thread context", "user interrupt received"}

Calls == 1..3

ZeroStats == [k \in Calls |-> 0]

Ins(op, phase, arg, ticks) == [op |-> op, phase |-> phase, arg |-> arg, ticks |-> ticks]

\* createIoTSystem() and the workload/root set-up, shared by both scripts.
BuildProgram ==
    << Ins("create_system", 0, "", 0),
       Ins("connect_cpu", 0, "icache", 0),
       Ins("connect_cpu", 0, "dcache", 0),
       Ins("connect_bus", 0, "icache", 0),
       Ins("connect_bus", 0, "dcache", 0),
       Ins("instantiate", 0, "", 0) >>

\* The statements of one phase, in the order the script has them.
PhaseBlock(k, clock, voltage, arg, ticks, report) ==
    << Ins("set_clock", k, clock, 0),
       Ins("set_voltage", k, voltage, 0),
       Ins("reset", k, "", 0),
       Ins("simulate", k, arg, ticks),
       Ins("dump", k, "", 0),
       Ins(report, k, "", 0) >>

Phase1Block == PhaseBlock(1, "500MHz", "0.9V", "bounded", PhaseTicks, "print_phase")

Phase2Block == PhaseBlock(2, "300MHz", "0.7V", "bounded", PhaseTicks, "print_phase")

Phase3Block == PhaseBlock(3, "500MHz", "0.9V", "unbounded", 0, "print_exit")

\* Faulty variant: phase 2 resets the statistics after its advance.
Mut_ResetAfterAdvance ==
    Phase1Block
    \o << Ins("set_clock", 2, "300MHz", 0),
          Ins("set_voltage", 2, "0.7V", 0),
          Ins("simulate", 2, "bounded", PhaseTicks),
          Ins("reset", 2, "", 0),
          Ins("dump", 2, "", 0),
          Ins("print_phase", 2, "", 0) >>
    \o Phase3Block

\* Faulty variant: phase 2 passes the absolute end tick as the duration.
Mut_AbsoluteTickBound ==
    Phase1Block
    \o PhaseBlock(2, "300MHz", "0.7V", "bounded", 2 * PhaseTicks, "print_phase")
    \o Phase3Block

\* Faulty variant: phase 2 runs a warm-up advance before its reset.
Mut_WarmUpAdvance ==
    Phase1Block
    \o << Ins("set_clock", 2, "300MHz", 0),
          Ins("set_voltage", 2, "0.7V", 0),
          Ins("simulate", 2, "bounded", PhaseTicks),
          Ins("reset", 2, "", 0),
          Ins("simulate", 2, "bounded", PhaseTicks),
          Ins("dump", 2, "", 0),
          Ins("print_phase", 2, "", 0) >>
    \o Phase3Block

\* Faulty variant: phase 2 does not reset the statistics.
Mut_NoResetInPhase2 ==
    Phase1Block
    \o << Ins("set_clock", 2, "300MHz", 0),
          Ins("set_voltage", 2, "0.7V", 0),
          Ins("simulate", 2, "bounded", PhaseTicks),
          Ins("dump", 2, "", 0),
          Ins("print_phase", 2, "", 0) >>
    \o Phase3Block

\* Faulty variant: phase 2 ends with the exit report instead of the phase line.
Mut_ReportEachPhase ==
    Phase1Block
    \o PhaseBlock(2, "300MHz", "0.7V", "bounded", PhaseTicks, "print_exit")
    \o Phase3Block

\* Faulty variant: phase 3 restores the clock but not the voltage.
Mut_VoltageNotRestored ==
    Phase1Block
    \o Phase2Block
    \o << Ins("set_clock", 3, "500MHz", 0),
          Ins("reset", 3, "", 0),
          Ins("simulate", 3, "unbounded", 0),
          Ins("dump", 3, "", 0),
          Ins("print_exit", 3, "", 0) >>

\* dvfs_config.py, module level after m5.instantiate().
DvfsPhases ==
    << Ins("set_clock", 1, "500MHz", 0),
       Ins("set_voltage", 1, "0.9V", 0),
       Ins("reset", 1, "", 0),
       Ins("simulate", 1, "bounded", PhaseTicks),
       Ins("dump", 1, "", 0),
       Ins("print_phase", 1, "", 0),
       Ins("set_clock", 2, "300MHz", 0),
       Ins("set_voltage", 2, "0.7V", 0),
       Ins("reset", 2, "", 0),
       Ins("simulate", 2, "bounded", PhaseTicks),
       Ins("dump", 2, "", 0),
       Ins("print_phase", 2, "", 0),
       Ins("set_clock", 3, "500MHz", 0),
       Ins("set_voltage", 3, "0.9V", 0),
       Ins("reset", 3, "", 0),
       Ins("simulate", 3, "unbounded", 0),
       Ins("dump", 3, "", 0),
       Ins("print_exit", 3, "", 0) >>

\* Faulty variant: the single run dumps the statistics itself.
Mut_SingleRunDumps ==
    << Ins("simulate", 1, "unbounded", 0),
       Ins("dump", 1, "", 0),
       Ins("print_exit", 1, "", 0) >>

\* remove_l2cache_config.py, module level after m5.instantiate().
SingleRun ==
    << Ins("simulate", 1, "unbounded", 0),
       Ins("print_exit", 1, "", 0) >>

Scripts == {"dvfs_config", "remove_l2cache_config"}

Program(s) ==
    IF s = "dvfs_config" THEN BuildProgram \o DvfsPhases
    ELSE BuildProgram \o SingleRun

End(s) == Len(Program(s)) + 1

Instr == Program(script)[pc]

\* The statement at pc is an `op` and control is in the script, not the engine.
At(op) ==
    /\ ~advancing
    /\ raised = "none"
    /\ pc < End(script)
    /\ Instr.op = op

Done == pc = End(script) /\ ~advancing

----------------------------------------------------------------------------
(* The cache classes *)

CacheClasses == {"L1Cache", "L1ICache", "L1DCache"}

Caches == {"icache", "dcache"}

\* Faulty variant: the generic base binds the instruction port silently.
Mut_BaseBinds(cls) ==
    IF cls = "L1DCache" THEN [raises |-> "none", port |-> "dcache_port"]
    ELSE [raises |-> "none", port |-> "icache_port"]

\* connectCPU by class: the port of the CPU it binds cpu_side to, or the
\* exception it raises.
connectCPU(cls) ==
    IF cls = "L1ICache" THEN [raises |-> "none", port |-> "icache_port"]
    ELSE IF cls = "L1DCache" THEN [raises |-> "none", port |-> "dcache_port"]
    ELSE [raises |-> "NotImplementedError", port |-> "unbound"]

\* connectBus, inherited by every L1 class: binds mem_side to the bus.
connectBus(cls) == [raises |-> "none", port |-> "cpu_side_ports"]

----------------------------------------------------------------------------
(* The engine *)

\* m5.stats.reset(): zero every accumulator.
StatsReset(st) == ZeroStats

\* Ticks elapsing during advance call k are counted by the accumulators.
StatsAccumulate(st, k, n) == [st EXCEPT ![k] = @ + n]

\* m5.stats.dump(): write the accumulators out; they keep their values.
StatsDump(ds, st) == Append(ds, st)

\* Elapsed times the advance may take when bounded by d ticks.
Samples(d) == {(d * i) \div TickSteps : i \in 0..TickSteps}

\* Outcomes of m5.simulate: the limit event ends it at the bound, any other
\* exit event ends it at or before the bound.
SimulateOutcomes(ins) ==
    IF ins.arg = "bounded"
    THEN {[elapsed |-> e, cause |-> c] : e \in Samples(ins.ticks), c \in Causes \ {LimitCause}}
         \cup {[elapsed |-> ins.ticks, cause |-> LimitCause]}
    ELSE {[elapsed |-> e, cause |-> c] : e \in Samples(MaxFinalTicks), c \in Causes \ {LimitCause}}

\* Faulty variant: the script stops when the workload has exited.
Mut_StopOnExit(p, ev) ==
    IF ev.cause = "exiting with last active thread context" THEN End(script) ELSE p + 1

\* Where the script continues after m5.simulate returned: the next statement,
\* whatever the exit event is.
AfterSimulate(p, ev) == p + 1

\* Faulty variant: the clock is written to the system-wide domain.
Mut_WriteSystemClock(d, val) == [d EXCEPT !.sys.clock = val]

\* Writes of the script to the CPU clock domain and its voltage domain.
WriteClock(d, val) == [d EXCEPT !.cpu.clock = val]

WriteVoltage(d, val) == [d EXCEPT !.cpu.voltage = val]

\* The clock / voltage domains createIoTSystem() builds.
CreatedDomains ==
    [sys |-> [clock |-> "500MHz", voltage |-> "0.9V"],
     cpu |-> [clock |-> "500MHz", voltage |-> "unset"]]

----------------------------------------------------------------------------
(* Initial state: the classes are defined, the script is about to run *)

InitDriver ==
    /\ pc = 1
    /\ domains = [sys |-> [clock |-> "unset", voltage |-> "unset"],
                  cpu |-> [clock |-> "unset", voltage |-> "unset"]]
    /\ cur_tick = 0
    /\ stats = ZeroStats
    /\ dumps = << >>
    /\ advancing = FALSE
    /\ limit = -1
    /\ exit_event = NoEvent
    /\ output = << >>
    /\ trace = << >>
    /\ start_tick = [k \in Calls |-> -1]
    /\ end_tick = [k \in Calls |-> -1]
    /\ returned = [k \in Calls |-> NoEvent]

InitCaches ==
    /\ cpu_side = [c \in Caches |-> "unbound"]
    /\ mem_side = [c \in Caches |-> "unbound"]
    /\ cpu_ports = [p \in {"icache_port", "dcache_port"} |-> "unbound"]
    /\ raised = "none"
    /\ last_call = [method |-> "none", cache |-> "none"]

Init ==
    /\ script \in Scripts
    /\ cache_class = [c \in Caches |-> IF c = "icache" THEN "L1ICache" ELSE "L1DCache"]
    /\ InitDriver
    /\ InitCaches

----------------------------------------------------------------------------
(* The statements of the scripts *)

\* An entry of the history: the call made, its phase, and curTick at the call.
Log(op, phase) == Append(trace, [op |-> op, phase |-> phase, tick |-> cur_tick])

CreateSystem ==
    /\ At("create_system")
    /\ domains' = CreatedDomains
    /\ pc' = pc + 1
    /\ UNCHANGED <<script, cur_tick, stats, dumps, advancing, limit, exit_event,
                   output, trace, start_tick, end_tick, returned>>
    /\ UNCHANGED cacheVars

\* cache.connectCPU(system.cpu): an exception ends the script.
ConnectCPU ==
    /\ At("connect_cpu")
    /\ LET c == Instr.arg
           r == connectCPU(cache_class[c])
       IN  /\ raised' = r.raises
           /\ cpu_side' = IF r.raises = "none" THEN [cpu_side EXCEPT ![c] = r.port] ELSE cpu_side
           /\ cpu_ports' = IF r.raises = "none" THEN [cpu_ports EXCEPT ![r.port] = c] ELSE cpu_ports
           /\ pc' = IF r.raises = "none" THEN pc + 1 ELSE pc
           /\ last_call' = [method |-> "connectCPU", cache |-> c]
    /\ UNCHANGED <<cache_class, mem_side>>
    /\ UNCHANGED <<script, domains, cur_tick, stats, dumps, advancing, limit, exit_event,
                   output, trace, start_tick, end_tick, returned>>

ConnectBus ==
    /\ At("connect_bus")
    /\ LET c == Instr.arg
           r == connectBus(cache_class[c])
       IN  /\ mem_side' = [mem_side EXCEPT ![c] = r.port]
           /\ raised' = r.raises
           /\ last_call' = [method |-> "connectBus", cache |-> c]
    /\ pc' = pc + 1
    /\ UNCHANGED <<cache_class, cpu_side, cpu_ports>>
    /\ UNCHANGED <<script, domains, cur_tick, stats, dumps, advancing, limit, exit_event,
                   output, trace, start_tick, end_tick, returned>>

\* m5.instantiate(): simulated time starts at tick 0.
Instantiate ==
    /\ At("instantiate")
    /\ cur_tick' = 0
    /\ stats' = ZeroStats
    /\ trace' = Log("instantiate", 0)
    /\ pc' = pc + 1
    /\ UNCHANGED <<script, domains, dumps, advancing, limit, exit_event,
                   output, start_tick, end_tick, returned>>
    /\ UNCHANGED cacheVars

SetClock ==
    /\ At("set_clock")
    /\ domains' = WriteClock(domains, Instr.arg)
    /\ trace' = Log("set_clock", Instr.phase)
    /\ pc' = pc + 1
    /\ UNCHANGED <<script, cur_tick, stats, dumps, advancing, limit, exit_event,
                   output, start_tick, end_tick, returned>>
    /\ UNCHANGED cacheVars

SetVoltage ==
    /\ At("set_voltage")
    /\ domains' = WriteVoltage(domains, Instr.arg)
    /\ trace' = Log("set_voltage", Instr.phase)
    /\ pc' = pc + 1
    /\ UNCHANGED <<script, cur_tick, stats, dumps, advancing, limit, exit_event,
                   output, start_tick, end_tick, returned>>
    /\ UNCHANGED cacheVars

Reset ==
    /\ At("reset")
    /\ stats' = StatsReset(stats)
    /\ trace' = Log("reset", Instr.phase)
    /\ pc' = pc + 1
    /\ UNCHANGED <<script, domains, cur_tick, dumps, advancing, limit, exit_event,
                   output, start_tick, end_tick, returned>>
    /\ UNCHANGED cacheVars

\* The call of m5.simulate: control enters the engine.
SimulateCall ==
    /\ At("simulate")
    /\ advancing' = TRUE
    /\ limit' = IF Instr.arg = "bounded" THEN cur_tick + Instr.ticks ELSE -1
    /\ start_tick' = [start_tick EXCEPT ![Instr.phase] = cur_tick]
    /\ trace' = Log("advance", Instr.phase)
    /\ UNCHANGED <<script, pc, domains, cur_tick, stats, dumps, exit_event,
                   output, end_tick, returned>>
    /\ UNCHANGED cacheVars

\* The return of m5.simulate: time has advanced, the accumulators have counted
\* it, and the exit event is assigned to exit_event.
SimulateReturn ==
    /\ advancing
    /\ \E o \in SimulateOutcomes(Instr) :
         LET k == Instr.phase
             ev == [id |-> k, cause |-> o.cause]
         IN  /\ cur_tick' = cur_tick + o.elapsed
             /\ stats' = StatsAccumulate(stats, k, o.elapsed)
             /\ exit_event' = ev
             /\ returned' = [returned EXCEPT ![k] = ev]
             /\ end_tick' = [end_tick EXCEPT ![k] = cur_tick + o.elapsed]
             /\ pc' = AfterSimulate(pc, ev)
    /\ advancing' = FALSE
    /\ limit' = -1
    /\ trace' = Append(trace, [op |-> "return", phase |-> Instr.phase, tick |-> cur_tick'])
    /\ UNCHANGED <<script, domains, dumps, output, start_tick>>
    /\ UNCHANGED cacheVars

Dump ==
    /\ At("dump")
    /\ dumps' = StatsDump(dumps, stats)
    /\ trace' = Log("dump", Instr.phase)
    /\ pc' = pc + 1
    /\ UNCHANGED <<script, domains, cur_tick, stats, advancing, limit, exit_event,
                   output, start_tick, end_tick, returned>>
    /\ UNCHANGED cacheVars

\* print(f"Phase k completed at tick {m5.curTick()}")
PrintPhase ==
    /\ At("print_phase")
    /\ output' = Append(output, [kind |-> "phase", phase |-> Instr.phase,
                                 tick |-> cur_tick, cause |-> "", event |-> 0])
    /\ pc' = pc + 1
    /\ UNCHANGED <<script, domains, cur_tick, stats, dumps, advancing, limit, exit_event,
                   trace, start_tick, end_tick, returned>>
    /\ UNCHANGED cacheVars

\* print(f"Exiting @ tick {m5.curTick()} because {exit_event.getCause()}")
PrintExit ==
    /\ At("print_exit")
    /\ output' = Append(output, [kind |-> "exit", phase |-> Instr.phase,
                                 tick |-> cur_tick, cause |-> exit_event.cause,
                                 event |-> exit_event.id])
    /\ pc' = pc + 1
    /\ UNCHANGED <<script, domains, cur_tick, stats, dumps, advancing, limit, exit_event,
                   trace, start_tick, end_tick, returned>>
    /\ UNCHANGED cacheVars

Next ==
    \/ CreateSystem
    \/ ConnectCPU
    \/ ConnectBus
    \/ Instantiate
    \/ SetClock
    \/ SetVoltage
    \/ Reset
    \/ SimulateCall
    \/ SimulateReturn
    \/ Dump
    \/ PrintPhase
    \/ PrintExit

Spec == Init /\ [][Next]_vars

\* The interpreter runs the next statement of the script; the engine need
\* not ever return from an advance.
ScriptStep ==
    \/ CreateSystem \/ ConnectCPU \/ ConnectBus \/ Instantiate
    \/ SetClock \/ SetVoltage \/ Reset \/ SimulateCall
    \/ Dump \/ PrintPhase \/ PrintExit

FairSpec == Init /\ [][Next]_vars /\ WF_vars(ScriptStep)

----------------------------------------------------------------------------
(* The cache classes on their own: caches of any L1 class, and any legal   *)
(* order of calls of their methods.  A port is bound at most once, so a    *)
(* binding method is called only while the ports it would bind are free;   *)
(* a caller that catches the exception of a call goes on to the next call. *)

InitCache ==
    /\ script = "dvfs_config"
    /\ cache_class \in [Caches -> CacheClasses]
    /\ InitDriver
    /\ InitCaches

CallConnectCPU(c) ==
    /\ cpu_side[c] = "unbound"
    /\ LET r == connectCPU(cache_class[c])
       IN  /\ r.raises = "none" => cpu_ports[r.port] = "unbound"
           /\ raised' = r.raises
           /\ cpu_side' = IF r.raises = "none" THEN [cpu_side EXCEPT ![c] = r.port] ELSE cpu_side
           /\ cpu_ports' = IF r.raises = "none" THEN [cpu_ports EXCEPT ![r.port] = c] ELSE cpu_ports
    /\ last_call' = [method |-> "connectCPU", cache |-> c]
    /\ UNCHANGED <<cache_class, mem_side>>
    /\ UNCHANGED driverVars

CallConnectBus(c) ==
    /\ mem_side[c] = "unbound"
    /\ LET r == connectBus(cache_class[c])
       IN  /\ mem_side' = [mem_side EXCEPT ![c] = r.port]
           /\ raised' = r.raises
    /\ last_call' = [method |-> "connectBus", cache |-> c]
    /\ UNCHANGED <<cache_class, cpu_side, cpu_ports>>
    /\ UNCHANGED driverVars

NextCache ==
    \/ \E c \in Caches : CallConnectCPU(c)
    \/ \E c \in Caches : CallConnectBus(c)

SpecCache == InitCache /\ [][NextCache]_vars

----------------------------------------------------------------------------
(* Properties *)

Dvfs == script = "dvfs_config"

Single == script = "remove_l2cache_config"

IsPrefix(s, t) == Len(s) <= Len(t) /\ SubSeq(t, 1, Len(s)) = s

\* The history restricted to the operations in `ops`, as <<op, phase>> pairs.
Events(ops) ==
    LET sel == SelectSeq(trace, LAMBDA e : e.op \in ops)
    IN  [i \in 1..Len(sel) |-> <<sel[i].op, sel[i].phase>>]

ExitReports == SelectSeq(output, LAMBDA r : r.kind = "exit")

PhaseReports == SelectSeq(output, LAMBDA r : r.kind = "phase")

\* Ticks that elapsed during advance k, as observed at its call and its return.
Elapsed(k) == end_tick[k] - start_tick[k]

HasReturned(k) == returned[k] # NoEvent

\* The engine calls of the three phases; an advance is a call and its return.
C1_ExpectedEvents ==
    << <<"reset", 1>>, <<"advance", 1>>, <<"return", 1>>, <<"dump", 1>>,
       <<"reset", 2>>, <<"advance", 2>>, <<"return", 2>>, <<"dump", 2>>,
       <<"reset", 3>>, <<"advance", 3>>, <<"return", 3>>, <<"dump", 3>> >>

\* C1: in the DVFS script the resets, advances (call, then return) and dumps
\* happen in the order reset1, advance1, dump1, reset2, advance2, dump2,
\* reset3, advance3, dump3, and the finished run has made exactly these.
C1_PhaseOrder ==
    Dvfs =>
        /\ IsPrefix(Events({"reset", "advance", "return", "dump"}), C1_ExpectedEvents)
        /\ Done => Events({"reset", "advance", "return", "dump"}) = C1_ExpectedEvents

C1_Witness ==
    /\ Dvfs
    /\ Done
    /\ Len(Events({"reset", "advance", "return", "dump"})) = Len(C1_ExpectedEvents)

\* C2 as stated: the DVFS script reports tick 20 000 000 after phase 1 and
\* tick 40 000 000 after phase 2, whatever the advance primitive does.
C2_Original ==
    Dvfs =>
        \A i \in 1..Len(PhaseReports) :
            PhaseReports[i].tick = PhaseReports[i].phase * PhaseTicks

\* C2, amended: the tick reported after phase k (k = 1, 2) is the tick the
\* phase's advance ended at; it is at most k * 20 000 000, and exactly that
\* when every advance so far ended by reaching its 20 000 000-tick limit.
C2_Amended ==
    Dvfs =>
        \A i \in 1..Len(PhaseReports) :
            LET r == PhaseReports[i]
                k == r.phase
            IN  /\ k = i
                /\ r.tick = end_tick[k]
                /\ r.tick <= k * PhaseTicks
                /\ (\A j \in 1..k : returned[j].cause = LimitCause) => r.tick = k * PhaseTicks
                /\ k = 2 => r.tick = PhaseReports[1].tick + Elapsed(2)

C2_Witness ==
    /\ Dvfs
    /\ Len(PhaseReports) = 2
    /\ returned[1].cause # LimitCause
    /\ PhaseReports[1].tick < PhaseTicks
    /\ PhaseReports[2].tick < 2 * PhaseTicks

\* C3 as stated: the finished single run has made exactly one statistics
\* dump, one termination report and no statistics reset.
C3_Original ==
    (Single /\ Done) =>
        /\ Len(dumps) = 1
        /\ Len(ExitReports) = 1
        /\ Len(Events({"reset"})) = 0

\* C3, amended: the single-run script makes no statistics dump and no
\* statistics reset; it reports the termination cause once, as its last
\* statement, with the tick and the cause of its one advance.
C3_Amended ==
    Single =>
        /\ Len(dumps) = 0
        /\ Len(Events({"reset"})) = 0
        /\ Len(PhaseReports) = 0
        /\ Len(ExitReports) <= 1
        /\ Done <=> Len(ExitReports) = 1
        /\ Len(ExitReports) = 1 =>
              /\ ExitReports[1].tick = end_tick[1]
              /\ ExitReports[1].tick = cur_tick
              /\ ExitReports[1].cause = returned[1].cause

C3_Witness ==
    /\ Single
    /\ Done
    /\ Len(ExitReports) = 1
    /\ Len(dumps) = 0

\* Ticks elapsed in the advances that have returned so far.
C4_SumElapsed ==
    (IF HasReturned(1) THEN Elapsed(1) ELSE 0)
    + (IF HasReturned(2) THEN Elapsed(2) ELSE 0)
    + (IF HasReturned(3) THEN Elapsed(3) ELSE 0)

\* C4: in the DVFS run simulated time is 0 when the first advance starts,
\* each later advance starts at the tick the previous one ended at, the
\* current tick is always the sum of the ticks elapsed in the advances that
\* have returned, and the tick of the final report is the sum over the three
\* phases.
C4_TickAccounting ==
    Dvfs =>
        /\ start_tick[1] # -1 => start_tick[1] = 0
        /\ \A k \in 2..3 :
              start_tick[k] # -1 => (HasReturned(k - 1) /\ start_tick[k] = end_tick[k - 1])
        /\ cur_tick = C4_SumElapsed
        /\ Done =>
              /\ \A k \in Calls : HasReturned(k)
              /\ ExitReports[1].tick = Elapsed(1) + Elapsed(2) + Elapsed(3)

C4_Witness ==
    /\ Dvfs
    /\ Done
    /\ \A k \in Calls : Elapsed(k) > 0
    /\ cur_tick = Elapsed(1) + Elapsed(2) + Elapsed(3)

\* C5: the k-th snapshot dumped by the DVFS script holds exactly the ticks
\* elapsed during advance k and none of another advance; the reset of a
\* phase is made at the tick its advance starts at, and the dump at the tick
\* the advance ended at.
C5_DumpCoversOwnPhase ==
    Dvfs =>
        /\ \A k \in 1..Len(dumps) :
              /\ HasReturned(k)
              /\ dumps[k] = [j \in Calls |-> IF j = k THEN Elapsed(k) ELSE 0]
        /\ \A i \in 1..Len(trace) :
              /\ (trace[i].op = "reset" /\ start_tick[trace[i].phase] # -1)
                    => trace[i].tick = start_tick[trace[i].phase]
              /\ trace[i].op = "dump" => trace[i].tick = end_tick[trace[i].phase]

C5_Witness ==
    /\ Dvfs
    /\ Len(dumps) = 3
    /\ \A k \in Calls : dumps[k][k] > 0
    /\ dumps[1] # dumps[2]

\* What each class may have bound, and what the last connectCPU call raised.
C6_Bindings ==
    \A c \in Caches :
        /\ cache_class[c] = "L1Cache" => cpu_side[c] = "unbound"
        /\ cache_class[c] = "L1ICache" => cpu_side[c] \in {"unbound", "icache_port"}
        /\ cache_class[c] = "L1DCache" => cpu_side[c] \in {"unbound", "dcache_port"}
        /\ \A p \in DOMAIN cpu_ports : cpu_ports[p] = c <=> cpu_side[c] = p
        /\ last_call = [method |-> "connectCPU", cache |-> c] =>
              /\ raised = (IF cache_class[c] = "L1Cache" THEN "NotImplementedError" ELSE "none")
              /\ cache_class[c] # "L1Cache" => cpu_side[c] # "unbound"

\* A connectCPU call on a generic cache leaves every port as it was.
C6_BaseCallChangesNothing ==
    \A c \in Caches :
        (cache_class[c] = "L1Cache" /\ last_call' = [method |-> "connectCPU", cache |-> c])
            => UNCHANGED <<cpu_side, cpu_ports, mem_side, cache_class>>

\* C6: connectCPU on a cache of the generic class L1Cache raises
\* NotImplementedError and changes no port binding; a generic cache is never
\* bound to the CPU; an L1ICache binds only icache_port and an L1DCache only
\* dcache_port, without raising.
C6_GenericCacheRaises == [](C6_Bindings) /\ [][C6_BaseCallChangesNothing]_vars

C6_Witness ==
    \E c, d \in Caches :
        /\ cache_class[c] = "L1Cache"
        /\ last_call = [method |-> "connectCPU", cache |-> c]
        /\ raised = "NotImplementedError"
        /\ cache_class[d] = "L1DCache"
        /\ cpu_ports["dcache_port"] = d

\* The exit report, when made, is the last output and reads the third event.
C7_Report ==
    Dvfs =>
        /\ Len(ExitReports) <= 1
        /\ Done => Len(ExitReports) = 1
        /\ Len(ExitReports) = 1 =>
              LET r == ExitReports[1]
              IN  /\ Done
                  /\ Len(dumps) = 3
                  /\ HasReturned(3)
                  /\ r.event = 3
                  /\ r.cause = returned[3].cause
                  /\ r.tick = end_tick[3]
                  /\ r.tick = cur_tick
                  /\ output[Len(output)] = r

\* C7: the DVFS script reports a termination cause at most once, as its last
\* output, after the third dump; the report carries the cause of the event
\* the third advance yielded and the tick that advance ended at; the finished
\* run has reported; and once the third advance has returned the report is
\* eventually made.
C7_FinalReport ==
    /\ [](C7_Report)
    /\ (Dvfs /\ HasReturned(3)) ~> (Len(ExitReports) = 1)

C7_Witness ==
    /\ Dvfs
    /\ Len(ExitReports) = 1
    /\ returned[1].cause # returned[3].cause
    /\ returned[2].cause # returned[3].cause

\* The step taken when the statement at pc is a clock or a voltage write.
C8_WriteStep ==
    (~advancing /\ raised = "none" /\ pc < End(script)
        /\ Instr.op \in {"set_clock", "set_voltage"})
    => /\ domains.sys = [clock |-> "500MHz", voltage |-> "0.9V"]
       /\ domains'.sys = domains.sys
       /\ Instr.op = "set_clock" => domains'.cpu = [domains.cpu EXCEPT !.clock = Instr.arg]
       /\ Instr.op = "set_voltage" => domains'.cpu = [domains.cpu EXCEPT !.voltage = Instr.arg]
       /\ UNCHANGED <<cur_tick, stats, dumps, output, start_tick, end_tick, returned,
                      exit_event, cpu_side, mem_side, cpu_ports>>

\* C8: a write of the clock or of the voltage by the script changes that one
\* field of the CPU domain and nothing else: not the current tick, not the
\* system-wide domain (500MHz, 0.9V), not the accumulators, not a snapshot
\* already dumped, not a tick already recorded or reported.
C8_Frame == [][C8_WriteStep]_vars

C8_Witness ==
    /\ Dvfs
    /\ Len(dumps) = 1
    /\ Len(PhaseReports) = 1
    /\ cur_tick > 0
    /\ trace[Len(trace)].op = "set_voltage"
    /\ domains.cpu = [clock |-> "300MHz", voltage |-> "0.7V"]

\* The setting each phase is to run at.
C9_Setting(k) ==
    IF k = 2 THEN [clock |-> "300MHz", voltage |-> "0.7V"]
    ELSE [clock |-> "500MHz", voltage |-> "0.9V"]

\* C9: while an advance of the DVFS script is in progress the CPU domain
\* holds that phase's setting, (500MHz, 0.9V), (300MHz, 0.7V), (500MHz, 0.9V),
\* and the advance is bounded by 20 000 000 ticks in phases 1 and 2 and
\* unbounded in phase 3; a clock write is followed at once by the voltage
\* write of the same phase, which is followed by the phase's reset, and
\* between the call and the return of an advance nothing is written.
C9_SettingsAtAdvance ==
    Dvfs =>
        /\ advancing =>
              /\ domains.cpu = C9_Setting(Instr.phase)
              /\ limit = (IF Instr.phase \in {1, 2} THEN start_tick[Instr.phase] + 20000000 ELSE -1)
              /\ trace[Len(trace)].op = "advance"
        /\ \A i \in 1..Len(trace) :
              /\ (trace[i].op = "set_clock" /\ i < Len(trace)) =>
                    trace[i + 1] = [trace[i] EXCEPT !.op = "set_voltage"]
              /\ trace[i].op = "set_voltage" =>
                    (i > 1 /\ trace[i - 1] = [trace[i] EXCEPT !.op = "set_clock"])
              /\ trace[i].op = "reset" =>
                    (i > 1 /\ trace[i - 1] = [trace[i] EXCEPT !.op = "set_voltage"])
              /\ (trace[i].op = "advance" /\ i < Len(trace)) => trace[i + 1].op = "return"

C9_Witness ==
    /\ Dvfs
    /\ advancing
    /\ Instr.phase = 2
    /\ cur_tick > 0
    /\ domains.cpu.clock = "300MHz"

\* Every call of the finished DVFS run.
C10_ExpectedCalls ==
    << <<"instantiate", 0>>,
       <<"set_clock", 1>>, <<"set_voltage", 1>>, <<"reset", 1>>,
       <<"advance", 1>>, <<"return", 1>>, <<"dump", 1>>,
       <<"set_clock", 2>>, <<"set_voltage", 2>>, <<"reset", 2>>,
       <<"advance", 2>>, <<"return", 2>>, <<"dump", 2>>,
       <<"set_clock", 3>>, <<"set_voltage", 3>>, <<"reset", 3>>,
       <<"advance", 3>>, <<"return", 3>>, <<"dump", 3>> >>

C10_AllOps ==
    {"instantiate", "set_clock", "set_voltage", "reset", "advance", "return", "dump"}

\* C10: the DVFS script ends only after its last statement: whatever the
\* first two advances returned, the finished run has applied the three
\* settings and made the three resets, advances and dumps, in order.
C10_NoEarlyStop ==
    (Dvfs /\ pc = End(script)) =>
        /\ Events(C10_AllOps) = C10_ExpectedCalls
        /\ Len(dumps) = 3
        /\ Len(PhaseReports) = 2
        /\ raised = "none"

C10_Witness ==
    /\ Dvfs
    /\ Done
    /\ returned[1].cause = "exiting with last active thread context"
    /\ Elapsed(1) < PhaseTicks
    /\ returned[2].cause = "user interrupt received"
    /\ Len(dumps) = 3

====
